---- MODULE Spec2Model ----
(***************************************************************************)
(* Model of CVATIndexedStorage (cvat-core/src/indexed-storage.ts): the     *)
(* browser-side IndexedDB cache of previews, chunks and context images.    *)
(* The storage object's private fields, the database on disk, the engine's *)
(* requests and transactions, and every asynchronous step of setItem,      *)
(* getItem, clear and load are state and actions of the model.             *)
(***************************************************************************)
EXTENDS Naturals, Sequences, FiniteSets

\* ------------------------------------------------------------------ bounds

\* Calls (setItem / getItem / clear) issued in one run.
MaxCalls == 3

\* Calls issued in one run in which calls overlap.
MaxOverlap == 2

\* Call slots: at most two calls overlap.
Slots == {"A", "B"}

\* Record ids the callers use.
Keys == {"1", "2"}

\* ------------------------------------------------------- program constants

\* enum DatabaseStore
DatabaseStore ==
    {"projects_preview", "tasks_preview", "jobs_preview", "cloudstorages_preview",
     "functions_preview", "compressed_job_chunks", "compressed_job_images",
     "context_images"}

\* #version
version == 1

\* #storeConfiguration: the constructor each store's validator checks and the
\* conversion its serialize / deserialize pair performs. compressed_job_images
\* has no entry.
BlobStores ==
    {"projects_preview", "tasks_preview", "jobs_preview", "cloudstorages_preview",
     "functions_preview"}

ArrayBufferStores == {"compressed_job_chunks", "context_images"}

storeConfiguration ==
    [s \in BlobStores \cup ArrayBufferStores |->
        IF s \in BlobStores
        THEN [type |-> "Blob", convert |-> "blob2ArrayBuffer"]
        ELSE [type |-> "ArrayBuffer", convert |-> "identity"]]

\* The records (store, id) the callers of one run address: two ids of one
\* store, for a store of each kind of configuration, or one id in each of two
\* stores.
Scopes ==
    {{<<s, "1">>, <<s, "2">>} : s \in {"projects_preview", "compressed_job_chunks"}}
    \cup {{<<"projects_preview", "1">>, <<"compressed_job_chunks", "1">>},
          {<<"tasks_preview", "1">>, <<"compressed_job_images", "1">>}}

\* ------------------------------------------------------------------ values

Null == [kind |-> "null"]
True == [kind |-> "boolean", val |-> TRUE]
False == [kind |-> "boolean", val |-> FALSE]
Undefined == [kind |-> "undefined"]

\* MIME type strings as scripts may pass them, and their ASCII-lowercase forms.
MimeTypes == {"", "image/png", "IMAGE/PNG"}

Lower(t) == IF t = "IMAGE/PNG" THEN "image/png" ELSE t

\* new Blob([bytes], { type }): the constructor lowercases the type.
NewBlob(bytes, type) == [kind |-> "Blob", bytes |-> bytes, type |-> Lower(type)]

NewArrayBuffer(bytes) == [kind |-> "ArrayBuffer", bytes |-> bytes]

\* Byte contents of the payloads.
Bytes == {<<1>>, <<2, 3>>}

\* Objects the callers hand to setItem.
Objects ==
    {NewBlob(<<1>>, "IMAGE/PNG"), NewBlob(<<2, 3>>, ""),
     NewArrayBuffer(<<1>>), NewArrayBuffer(<<2, 3>>)}

\* A decoded frame as FrameData.data returns it: { renderWidth, renderHeight,
\* imageData } with an ImageBitmap as imageData.
Frame == [kind |-> "object", imageData |-> [kind |-> "ImageBitmap"]]

\* The objects tried on a store: two of one constructor, one of the other; on
\* compressed_job_images also the frame the cache plugin hands over.
ObjectsFor(storeName) ==
    IF storeName \in ArrayBufferStores
    THEN Objects \ {NewBlob(<<2, 3>>, "")}
    ELSE IF storeName = "compressed_job_images"
    THEN (Objects \ {NewArrayBuffer(<<2, 3>>)}) \cup {Frame}
    ELSE Objects \ {NewArrayBuffer(<<2, 3>>)}

\* A check that never throws.
isInstanceAlways(val, constructor) == TRUE

\* isInstance(val, constructor, store): TRUE when it does not throw.
isInstance(val, constructor) == val.kind = constructor

\* blob2ArrayBuffer(blob)
blob2ArrayBuffer(blob) ==
    [kind |-> "object", arrayBuffer |-> NewArrayBuffer(blob.bytes), type |-> blob.type]

\* arrayBuffer2Blob({ arrayBuffer, type })
arrayBuffer2Blob(el) == NewBlob(el.arrayBuffer.bytes, el.type)

\* conf.validator(object): TRUE when it does not throw.
validator(storeName, object) ==
    isInstance(object, storeConfiguration[storeName].type)

\* conf.serialize(object), the value its promise is fulfilled with.
serialize(storeName, object) ==
    IF storeConfiguration[storeName].convert = "blob2ArrayBuffer"
    THEN blob2ArrayBuffer(object)
    ELSE object

\* conf.deserialize(payload), the value its promise is fulfilled with.
deserialize(storeName, payload) ==
    IF storeConfiguration[storeName].convert = "blob2ArrayBuffer"
    THEN arrayBuffer2Blob(payload)
    ELSE payload

\* ------------------------------------------------------------------- state

VARIABLES
    indexedDB,              \* whether the global indexedDB is available
    db,                     \* #db: "null", "open" or "closed" (closed, not nulled)
    dbUpgradedAnotherTab,   \* #dbUpgradedAnotherTab
    isQuotaExceed,          \* #isQuotaExceed
    initializationPromise,  \* #initializationPromise: "null", "pending", "fulfilled", "rejected"
    openRequest,            \* the engine's open request: "none", "pending", "upgrading"
    diskVersion,            \* version of cvat_db on disk, 0 when there is none
    objectStoreNames,       \* object stores of cvat_db on disk
    records,                \* records[store][id]: payload, or Undefined
    txQueue,                \* slots with a live transaction, in creation order
    calls,                  \* calls[slot]: the call running in the slot
    scope,                  \* the records (store, id) the callers of this run address
    lanes,                  \* the slots the callers of this run use
    issued,                 \* number of calls issued so far
    stored,                 \* history: per (store, id), the value last acknowledged
    everPut,                \* history: per (store, id), whether a put was ever issued
    quotaAbortSeen,         \* history: a write aborted with QuotaExceededError, no clear() since
    wiped,                  \* history: per (store, id), "deleted" once a deleteDatabase removed
                            \* its record, "cleared" once that clear() resolved, "no" otherwise
                            \* and after a setItem to it is issued
    opens,                  \* history: number of indexedDB.open calls made
    leaveDone,              \* history: the ids under which FrameData.data.leave has called
                            \* setItem, cache enabled and healthy, since the last clear()
    clearFailed,            \* history: the latest clear() closed an open connection and
                            \* its deleteDatabase request failed
    invalidatedBy,          \* history: what the version change that set
                            \* #dbUpgradedAnotherTab was fired for ("none" before it)
    keptOn,                 \* history: per record, the payload last committed by a setItem
                            \* that read the flag on (Undefined: none since the last wipe)
    absentSeen,             \* history: a setItem or getItem was issued without an engine
    race                    \* history of the latest group of overlapping setItem calls to
                            \* one record: its size, how many resolved true, the payload of
                            \* the last of them to commit

vars ==
    <<indexedDB, db, dbUpgradedAnotherTab, isQuotaExceed,
      initializationPromise, openRequest, diskVersion, objectStoreNames, records,
      txQueue, calls, scope, lanes, issued, stored, everPut, quotaAbortSeen, wiped, opens,
      leaveDone, clearFailed, invalidatedBy, keptOn, absentSeen, race>>

engineVars == <<diskVersion, objectStoreNames, records>>
flagVars == <<dbUpgradedAnotherTab, isQuotaExceed>>
envVars == <<indexedDB, scope, lanes>>
historyVars ==
    <<stored, everPut, quotaAbortSeen, wiped, opens, leaveDone, clearFailed, invalidatedBy,
      keptOn,
      absentSeen, race>>

\* --------------------------------------------------------------- promises

Pending == [state |-> "pending", value |-> Null]

\* resolve(v): the first settlement wins.
Resolve(p, v) == IF p.state = "pending" THEN [state |-> "fulfilled", value |-> v] ELSE p

\* A throw inside the executor rejects the promise unless it is settled.
Reject(p) == IF p.state = "pending" THEN [state |-> "rejected", value |-> Null] ELSE p

\* ------------------------------------------------------------------ calls

Unknown == [n |-> 0, value |-> Null]

Idle ==
    [kind |-> "idle", pc |-> "idle", storeName |-> "projects_preview", id |-> "1",
     object |-> Null, promise |-> Pending, loadp |-> "rejected", payload |-> Undefined,
     error |-> "", disabled |-> FALSE, afterQuotaAbort |-> FALSE, engine |-> FALSE,
     fault |-> FALSE, expect |-> Unknown, quota |-> FALSE, invalidated |-> FALSE,
     afterOpenError |-> FALSE, wiped |-> FALSE, wasOpen |-> FALSE, deleted |-> FALSE,
     overlap |-> FALSE, absent |-> FALSE, afterAbsent |-> FALSE,
     kept |-> Undefined, read |-> FALSE, raced |-> "no",
     afterFailedClear |-> FALSE, afterLeave |-> FALSE]

\* Errors a transaction or request may fail with.
Errors == {"QuotaExceededError", "UnknownError"}

NoRecords == [s \in DatabaseStore |-> [k \in Keys |-> Undefined]]

\* Records an earlier page load left on disk: a valid payload under every
\* record of the scope whose store has a configuration.
Preexisting(sc) ==
    [s \in DatabaseStore |-> [k \in Keys |->
        IF <<s, k>> \in sc /\ s \in BlobStores
        THEN [kind |-> "object", arrayBuffer |-> [kind |-> "ArrayBuffer", bytes |-> <<1>>],
              type |-> "image/png"]
        ELSE IF <<s, k>> \in sc /\ s \in ArrayBufferStores
        THEN [kind |-> "ArrayBuffer", bytes |-> <<1>>]
        ELSE Undefined]]

\* A deleteDatabase that leaves the records behind.
DeleteDatabaseKeeps(recs) == recs

\* indexedDB.deleteDatabase: the records of the database once it is deleted.
DeleteDatabase(recs) == NoRecords

\* No finished call is waiting for its continuation: continuations of settled
\* promises run before anything else.
Quiet == \A c \in Slots : calls[c].pc # "done"

\* Calls the callers of this run issue.
CallLimit == IF lanes = Slots THEN MaxOverlap ELSE MaxCalls

\* Slot c can take a new call.
Free(c) == Quiet /\ calls[c].kind = "idle" /\ issued < CallLimit

\* Whether the engine may run the requests of slot c's transaction: no live
\* transaction created earlier overlaps its store with a write on either side.
CanRun(c) ==
    \A i \in 1..Len(txQueue) :
        \A j \in 1..Len(txQueue) :
            (txQueue[j] = c /\ i < j /\ calls[txQueue[i]].storeName = calls[c].storeName)
                => (calls[txQueue[i]].kind = "get" /\ calls[c].kind = "get")

Without(q, c) == SelectSeq(q, LAMBDA d : d # c)

\* The calls as they are once the connection is closed or dropped by way: a
\* setItem awaiting serialize(object) is marked as raced by it.
Raced(cs, way) ==
    [d \in Slots |->
        IF cs[d].kind = "set" /\ cs[d].pc = "serialize" /\ cs[d].raced = "no"
        THEN [cs[d] EXCEPT !.raced = way] ELSE cs[d]]

\* ------------------------------------------------------------------- load

\* load(): the promise it returns. "init" is the shared #initializationPromise.
LoadReturn ==
    IF ~indexedDB \/ dbUpgradedAnotherTab THEN "rejected"
    ELSE IF db # "null" THEN "resolved"
    ELSE "init"

\* A load() that opens whenever there is no connection.
LoadOpensAlways == LoadReturn = "init"

\* A load() that opens again once the promise of a failed open is rejected.
LoadOpensAfterFailure ==
    LoadReturn = "init" /\ initializationPromise \in {"null", "rejected"}

\* load() creates #initializationPromise and calls indexedDB.open.
LoadOpens == LoadReturn = "init" /\ initializationPromise = "null"

DeletePending == \E d \in Slots : calls[d].kind = "clear" /\ calls[d].pc = "delete"

\* load(): its effect on the storage object and the engine. An open requested
\* while a deleteDatabase request is pending is served after it.
Load ==
    /\ initializationPromise' = IF LoadOpens THEN "pending" ELSE initializationPromise
    /\ openRequest' =
        IF LoadOpens THEN (IF DeletePending THEN "queued" ELSE "pending") ELSE openRequest
    /\ opens' = IF LoadOpens THEN opens + 1 ELSE opens

\* The promise load() returned to slot c is settled.
Settled(c) ==
    \/ calls[c].loadp \in {"resolved", "rejected"}
    \/ initializationPromise \in {"fulfilled", "rejected"}

\* The promise load() returned to slot c is fulfilled.
LoadOk(c) ==
    \/ calls[c].loadp = "resolved"
    \/ calls[c].loadp = "init" /\ initializationPromise = "fulfilled"

\* An upgrade that creates the preview stores only.
CreateBlobStores(names) == names \cup BlobStores

\* onupgradeneeded, the forEach over #storeConfiguration: createObjectStore for
\* every entry whose store the database does not contain.
CreateMissingStores(names) ==
    names \cup {storeName \in DOMAIN storeConfiguration : storeName \notin names}

\* request.onupgradeneeded: create every configured store that is missing.
onupgradeneeded ==
    /\ Quiet
    /\ openRequest = "pending"
    /\ diskVersion < version
    /\ objectStoreNames' = CreateMissingStores(objectStoreNames)
    /\ diskVersion' = version
    /\ openRequest' = "upgrading"
    /\ UNCHANGED <<envVars, db, flagVars, initializationPromise, records, txQueue,
                   calls, issued, historyVars>>

\* request.onsuccess of indexedDB.open
open_onsuccess ==
    /\ Quiet
    /\ \/ openRequest = "upgrading"
       \/ openRequest = "pending" /\ diskVersion = version
    /\ db' = "open"
    /\ initializationPromise' = "fulfilled"
    /\ openRequest' = "none"
    /\ UNCHANGED <<envVars, flagVars, engineVars, txQueue, calls, issued, historyVars>>

\* request.onerror of indexedDB.open
open_onerror ==
    /\ Quiet
    /\ openRequest = "pending"
    /\ initializationPromise' = "rejected"
    /\ openRequest' = "none"
    /\ UNCHANGED <<envVars, db, flagVars, engineVars, txQueue, calls, issued, historyVars>>

\* The global indexedDB, absent so far, becomes available to load().
indexedDB_appears ==
    /\ Quiet
    /\ ~indexedDB
    /\ issued < CallLimit
    /\ indexedDB' = TRUE
    /\ UNCHANGED <<scope, lanes, db, flagVars, initializationPromise, openRequest,
                   engineVars, txQueue, calls, issued, historyVars>>

\* What the engine fires a version change at an open connection for: an upgrade
\* or a deletion requested through another tab, or the deleteDatabase request
\* of this tab's clear(), which waits for every open connection to close.
VersionChangeCauses == {"another tab", "clear"}

\* #db.onversionchange: close the connection and set #dbUpgradedAnotherTab.
onversionchange(cause) ==
    /\ Quiet
    /\ db = "open"
    /\ cause = "clear" => DeletePending
    /\ db' = "null"
    /\ dbUpgradedAnotherTab' = TRUE
    /\ invalidatedBy' = cause
    /\ calls' = Raced(calls, "versionchange")
    /\ UNCHANGED <<envVars, isQuotaExceed, initializationPromise, openRequest,
                   engineVars, txQueue, issued, stored, everPut, quotaAbortSeen,
                   wiped, opens, keptOn, absentSeen, race, clearFailed, leaveDone>>

\* ---------------------------------------------------------------- setItem

\* setItem, line 169: the condition under which it resolves false at once.
SetItemGate(enableIndexedDBCache) == ~enableIndexedDBCache \/ isQuotaExceed

\* A catch block that forgets to resolve.
SetItemCatchSilent(p) == p

\* setItem, the catch block around the configuration lookup and validation:
\* resolve(false).
SetItemCatch(p) == Resolve(p, False)

\* An abort handler that never recognises the quota error.
IsQuotaErrorNever(err) == FALSE

\* transaction.onabort of setItem: the error that sets #isQuotaExceed.
IsQuotaError(err) == err = "QuotaExceededError"

\* The setItem calls to record (storeName, id) in flight in the other slots.
SetPeers(c, storeName, id) ==
    {d \in Slots \ {c} :
        calls[d].kind = "set" /\ calls[d].storeName = storeName /\ calls[d].id = id}

\* setItem(storeName, id, object): the executor, with the value of
\* config.enableIndexedDBCache it reads. resolve(false) does not
\* return, so load() is called in every case.
setItem(c, enableIndexedDBCache, storeName, id, object) ==
    /\ Free(c)
    /\ race' =
        IF SetPeers(c, storeName, id) = {} THEN race
        ELSE IF \E d \in SetPeers(c, storeName, id) : calls[d].overlap
        THEN [race EXCEPT !.size = @ + 1]
        ELSE [size |-> 2,
              n |-> IF \E d \in SetPeers(c, storeName, id) :
                          calls[d].promise = [state |-> "fulfilled", value |-> True]
                    THEN 1 ELSE 0,
              last |-> Undefined]
    /\ calls' = [d \in Slots |->
            IF d \in SetPeers(c, storeName, id) THEN [calls[d] EXCEPT !.overlap = TRUE]
            ELSE IF d # c THEN calls[d]
            ELSE
            [Idle EXCEPT !.kind = "set", !.pc = "load", !.storeName = storeName,
                         !.id = id, !.object = object,
                         !.promise = IF SetItemGate(enableIndexedDBCache)
                                      THEN Resolve(Pending, False) ELSE Pending,
                         !.loadp = LoadReturn,
                         !.disabled = ~enableIndexedDBCache,
                         !.afterQuotaAbort = quotaAbortSeen,
                         !.engine = LoadOpens,
                         !.expect = stored[storeName][id],
                         !.quota = isQuotaExceed,
                         !.invalidated = dbUpgradedAnotherTab,
                         !.afterOpenError =
                            (LoadReturn = "init" /\ initializationPromise = "rejected"),
                         !.overlap = (SetPeers(c, storeName, id) # {}),
                         !.absent = ~indexedDB,
                         !.afterAbsent = absentSeen,
                         !.afterFailedClear = clearFailed]]
    /\ absentSeen' = (absentSeen \/ ~indexedDB)
    /\ Load
    /\ issued' = issued + 1
    /\ stored' = [stored EXCEPT ![storeName][id] = Unknown]
    /\ wiped' = [wiped EXCEPT ![storeName][id] = "no"]
    /\ UNCHANGED <<envVars, db, flagVars, engineVars, txQueue, everPut, quotaAbortSeen,
                   keptOn, invalidatedBy, clearFailed, leaveDone>>

\* setItem: load() settled. Fulfilled: look up the configuration, validate and
\* start serialize. Rejected: the outer catch resolves false.
setItem_loaded(c) ==
    /\ Quiet
    /\ calls[c].kind = "set" /\ calls[c].pc = "load"
    /\ Settled(c)
    /\ calls' = [calls EXCEPT ![c] =
            IF ~LoadOk(c)
            THEN [@ EXCEPT !.promise = Resolve(@, False), !.pc = "done"]
            ELSE IF calls[c].storeName \notin DOMAIN storeConfiguration
            THEN [@ EXCEPT !.promise = SetItemCatch(@), !.pc = "done"]
            ELSE IF ~validator(calls[c].storeName, calls[c].object)
            THEN [@ EXCEPT !.promise = SetItemCatch(@), !.pc = "done"]
            ELSE [@ EXCEPT !.pc = "serialize"]]
    /\ UNCHANGED <<envVars, db, flagVars, initializationPromise, openRequest,
                   engineVars, txQueue, issued, historyVars>>

\* A connection on which transaction() also works once it is closed.
TransactionOnClosed(storeName) == db # "null" /\ storeName \in objectStoreNames

\* (this.#db as IDBDatabase).transaction(storeName, mode) returns a transaction:
\* it throws when #db is null, when the connection is closed and when the
\* database has no such store.
Transaction(storeName) == db = "open" /\ storeName \in objectStoreNames

\* setItem: serialize(object) settled. Rejected (blob.arrayBuffer() failed), or
\* #db.transaction throws (connection null or closed, store missing):
\* resolve(false). Otherwise the transaction is created and put is requested.
setItem_serialized(c, ok) ==
    /\ Quiet
    /\ calls[c].kind = "set" /\ calls[c].pc = "serialize"
    /\ ok \/ storeConfiguration[calls[c].storeName].convert = "blob2ArrayBuffer"
    /\ IF ok /\ Transaction(calls[c].storeName)
       THEN /\ calls' = [calls EXCEPT ![c] =
                    [@ EXCEPT !.pc = "put", !.engine = TRUE,
                              !.payload = serialize(calls[c].storeName, calls[c].object)]]
            /\ txQueue' = Append(txQueue, c)
            /\ everPut' = [everPut EXCEPT ![calls[c].storeName][calls[c].id] = TRUE]
       ELSE /\ calls' = [calls EXCEPT ![c] =
                    [@ EXCEPT !.promise = Resolve(@, False), !.pc = "done"]]
            /\ UNCHANGED <<txQueue, everPut>>
    /\ UNCHANGED <<envVars, db, flagVars, initializationPromise, openRequest,
                   engineVars, issued, stored, quotaAbortSeen, wiped, opens, race,
                   absentSeen, keptOn, invalidatedBy, clearFailed, leaveDone>>

\* Another setItem to the same record has not been answered yet.
OtherSetPending(c) ==
    \E d \in Slots \ {c} :
        /\ calls[d].kind = "set"
        /\ calls[d].storeName = calls[c].storeName /\ calls[d].id = calls[c].id
        /\ calls[d].promise.state = "pending"

\* request.onsuccess of put: resolve(true).
put_onsuccess(c) ==
    /\ Quiet
    /\ calls[c].kind = "set" /\ calls[c].pc = "put"
    /\ CanRun(c)
    /\ calls' = [calls EXCEPT ![c] = [@ EXCEPT !.promise = Resolve(@, True), !.pc = "commit"]]
    /\ stored' = [stored EXCEPT ![calls[c].storeName][calls[c].id] =
            IF calls[c].promise.state # "pending" THEN @
            ELSE IF OtherSetPending(c) THEN Unknown
            ELSE [n |-> IF calls[c].expect.n = 0 THEN 1 ELSE 2, value |-> calls[c].object]]
    /\ race' = IF calls[c].overlap /\ calls[c].promise.state = "pending"
               THEN [race EXCEPT !.n = @ + 1] ELSE race
    /\ UNCHANGED <<envVars, db, flagVars, initializationPromise, openRequest,
                   engineVars, txQueue, issued, everPut, quotaAbortSeen, wiped, opens,
                   absentSeen, keptOn, invalidatedBy, clearFailed, leaveDone>>

\* The put request fails; its error event bubbles to transaction.onerror:
\* resolve(false). The transaction then aborts with that error.
transaction_onerror(c, err) ==
    /\ Quiet
    /\ calls[c].kind = "set" /\ calls[c].pc = "put"
    /\ CanRun(c)
    /\ calls' = [calls EXCEPT ![c] =
            [@ EXCEPT !.promise = Resolve(@, False), !.pc = "abort", !.error = err]]
    /\ UNCHANGED <<envVars, db, flagVars, initializationPromise, openRequest,
                   engineVars, txQueue, issued, historyVars>>

\* The write transaction commits: the record is on disk.
transaction_complete(c) ==
    /\ Quiet
    /\ calls[c].kind = "set" /\ calls[c].pc = "commit"
    /\ records' = [records EXCEPT ![calls[c].storeName][calls[c].id] = calls[c].payload]
    /\ txQueue' = Without(txQueue, c)
    /\ calls' = [calls EXCEPT ![c] = [@ EXCEPT !.pc = "done"]]
    /\ keptOn' = IF calls[c].disabled THEN keptOn
               ELSE [keptOn EXCEPT ![calls[c].storeName][calls[c].id] = calls[c].payload]
    /\ race' = IF calls[c].overlap THEN [race EXCEPT !.last = calls[c].payload] ELSE race
    /\ UNCHANGED <<envVars, db, flagVars, initializationPromise, openRequest,
                   diskVersion, objectStoreNames, issued, stored, everPut, quotaAbortSeen,
                   wiped, opens,
                   absentSeen, invalidatedBy, clearFailed, leaveDone>>

\* transaction.onabort of setItem: after a failed request, or when the commit
\* fails after the request succeeded. Nothing is written.
transaction_onabort(c, err) ==
    /\ Quiet
    /\ calls[c].kind = "set"
    /\ \/ calls[c].pc = "commit"
       \/ calls[c].pc = "abort" /\ err = calls[c].error
    /\ isQuotaExceed' = (isQuotaExceed \/ IsQuotaError(err))
    /\ quotaAbortSeen' = (quotaAbortSeen \/ err = "QuotaExceededError")
    /\ txQueue' = Without(txQueue, c)
    /\ calls' = [calls EXCEPT ![c] =
            [@ EXCEPT !.promise = Resolve(@, False), !.pc = "done", !.error = err]]
    /\ UNCHANGED <<envVars, db, dbUpgradedAnotherTab, initializationPromise, openRequest,
                   engineVars, issued, stored, everPut, wiped, opens, race,
                   absentSeen, keptOn, invalidatedBy, clearFailed, leaveDone>>

\* ---------------------------------------------------------------- getItem

\* A getItem that does not look at the configuration flag.
GetItemDisabledNever(enableIndexedDBCache) == FALSE

\* getItem, line 219: the cache is disabled.
GetItemDisabled(enableIndexedDBCache) == ~enableIndexedDBCache

\* getItem, line 223: reading is disabled once the quota is exceeded.
GetItemQuota == isQuotaExceed

\* getItem(storeName, id): the executor, with the value of
\* config.enableIndexedDBCache it reads. Neither resolve(null) returns; the
\* destructuring of a missing configuration entry throws inside the
\* executor, which rejects the promise unless it is resolved already.
getItem(c, enableIndexedDBCache, storeName, id) ==
    /\ Free(c)
    /\ LET p1 == IF GetItemDisabled(enableIndexedDBCache) THEN Resolve(Pending, Null) ELSE Pending
           p2 == IF GetItemQuota THEN Resolve(p1, Null) ELSE p1
           configured == storeName \in DOMAIN storeConfiguration
           call == [Idle EXCEPT !.kind = "get", !.storeName = storeName, !.id = id,
                                !.disabled = ~enableIndexedDBCache,
                                !.afterQuotaAbort = quotaAbortSeen,
                                !.quota = isQuotaExceed,
                                !.invalidated = dbUpgradedAnotherTab,
                                !.afterOpenError =
                                    (/\ configured /\ LoadReturn = "init"
                                     /\ initializationPromise = "rejected"),
                                !.wiped = (wiped[storeName][id] = "cleared"),
                                !.absent = ~indexedDB,
                                !.afterAbsent = absentSeen,
                                !.afterFailedClear = clearFailed,
                                !.afterLeave =
                                    (storeName = "compressed_job_images" /\ id \in leaveDone),
                                !.kept = keptOn[storeName][id],
                                !.expect = IF enableIndexedDBCache /\ ~isQuotaExceed
                                              /\ db = "open"
                                           THEN stored[storeName][id] ELSE Unknown]
       IN  IF configured
           THEN /\ calls' = [calls EXCEPT ![c] =
                        [call EXCEPT !.pc = "load", !.promise = p2,
                                     !.loadp = LoadReturn, !.engine = LoadOpens]]
                /\ Load
           ELSE /\ calls' = [calls EXCEPT ![c] =
                        [call EXCEPT !.pc = "done", !.promise = Reject(p2)]]
                /\ UNCHANGED <<initializationPromise, openRequest, opens>>
    /\ issued' = issued + 1
    /\ absentSeen' = (absentSeen \/ ~indexedDB)
    /\ UNCHANGED <<envVars, db, flagVars, engineVars, txQueue, stored, everPut,
                   quotaAbortSeen, wiped, race, keptOn,
                   invalidatedBy, clearFailed, leaveDone>>

\* getItem: load() settled. Fulfilled: open a readonly transaction and request
\* the record (a throw is caught: resolve(null)). Rejected: resolve(null).
getItem_loaded(c) ==
    /\ Quiet
    /\ calls[c].kind = "get" /\ calls[c].pc = "load"
    /\ Settled(c)
    /\ IF LoadOk(c) /\ db = "open" /\ calls[c].storeName \in objectStoreNames
       THEN /\ calls' = [calls EXCEPT ![c] = [@ EXCEPT !.pc = "get", !.engine = TRUE]]
            /\ txQueue' = Append(txQueue, c)
       ELSE /\ calls' = [calls EXCEPT ![c] =
                    [@ EXCEPT !.promise = Resolve(@, Null), !.pc = "done"]]
            /\ UNCHANGED txQueue
    /\ UNCHANGED <<envVars, db, flagVars, initializationPromise, openRequest,
                   engineVars, issued, historyVars>>

\* request.onsuccess of get: undefined resolves null, a record starts deserialize.
get_onsuccess(c) ==
    /\ Quiet
    /\ calls[c].kind = "get" /\ calls[c].pc = "get"
    /\ CanRun(c)
    /\ LET result == records[calls[c].storeName][calls[c].id]
       IN  calls' = [calls EXCEPT ![c] =
                IF result = Undefined
                THEN [@ EXCEPT !.promise = Resolve(@, Null), !.pc = "done", !.read = TRUE]
                ELSE [@ EXCEPT !.payload = result, !.pc = "deserialize", !.read = TRUE]]
    /\ txQueue' = Without(txQueue, c)
    /\ UNCHANGED <<envVars, db, flagVars, initializationPromise, openRequest,
                   engineVars, issued, historyVars>>

\* transaction.onerror / transaction.onabort of getItem: resolve(null).
get_onerror(c) ==
    /\ Quiet
    /\ calls[c].kind = "get" /\ calls[c].pc = "get"
    /\ CanRun(c)
    /\ calls' = [calls EXCEPT ![c] =
            [@ EXCEPT !.promise = Resolve(@, Null), !.pc = "done", !.fault = TRUE]]
    /\ txQueue' = Without(txQueue, c)
    /\ UNCHANGED <<envVars, db, flagVars, initializationPromise, openRequest,
                   engineVars, issued, historyVars>>

\* getItem: deserialize(result.payload) settled: resolve(deserialized).
getItem_deserialized(c) ==
    /\ Quiet
    /\ calls[c].kind = "get" /\ calls[c].pc = "deserialize"
    /\ calls' = [calls EXCEPT ![c] =
            [@ EXCEPT !.promise = Resolve(@, deserialize(calls[c].storeName, calls[c].payload)),
                      !.pc = "done"]]
    /\ UNCHANGED <<envVars, db, flagVars, initializationPromise, openRequest,
                   engineVars, txQueue, issued, historyVars>>

\* ------------------------------------------------------------------ clear

\* clear(): the executor. Closes #db (the field keeps the closed connection)
\* and requests deleteDatabase; without an engine the call throws.
clear(c) ==
    /\ Free(c)
    /\ db' = IF db = "open" THEN "closed" ELSE db
    /\ calls' = [IF db = "open" THEN Raced(calls, "clear") ELSE calls EXCEPT ![c] =
            IF indexedDB
            THEN [Idle EXCEPT !.kind = "clear", !.pc = "delete", !.engine = TRUE,
                              !.quota = isQuotaExceed,
                              !.invalidated = dbUpgradedAnotherTab,
                              !.wasOpen = (db = "open")]
            ELSE [Idle EXCEPT !.kind = "clear", !.pc = "done", !.promise = Reject(Pending)]]
    /\ issued' = issued + 1
    /\ stored' = [s \in DatabaseStore |-> [k \in Keys |-> Unknown]]
    /\ quotaAbortSeen' = FALSE
    /\ clearFailed' = FALSE
    /\ leaveDone' = {}
    /\ UNCHANGED <<envVars, flagVars, initializationPromise, openRequest, engineVars,
                   txQueue, everPut, wiped, opens, race,
                   absentSeen, keptOn, invalidatedBy>>

\* request.onsuccess of deleteDatabase: the database is gone; load() is called.
\* The engine deletes once every connection is closed and every request made
\* before it is served.
deleteDatabase_onsuccess(c) ==
    /\ Quiet
    /\ calls[c].kind = "clear" /\ calls[c].pc = "delete"
    /\ db # "open" /\ openRequest \in {"none", "queued"} /\ txQueue = <<>>
    /\ diskVersion' = 0
    /\ objectStoreNames' = {}
    /\ records' = DeleteDatabase(records)
    /\ calls' = [calls EXCEPT ![c] =
            [@ EXCEPT !.pc = "load", !.loadp = LoadReturn, !.deleted = TRUE]]
    /\ initializationPromise' = IF LoadOpens THEN "pending" ELSE initializationPromise
    /\ openRequest' =
        IF LoadOpens \/ openRequest = "queued" THEN "pending" ELSE openRequest
    /\ opens' = IF LoadOpens THEN opens + 1 ELSE opens
    /\ keptOn' = NoRecords
    /\ wiped' = [s \in DatabaseStore |-> [k \in Keys |->
            IF records[s][k] # Undefined THEN "deleted" ELSE wiped[s][k]]]
    /\ UNCHANGED <<envVars, db, flagVars, txQueue, issued, stored, everPut, quotaAbortSeen,
                   race,
                   absentSeen, invalidatedBy, clearFailed, leaveDone>>

\* request.onerror of deleteDatabase: reject.
deleteDatabase_onerror(c) ==
    /\ Quiet
    /\ calls[c].kind = "clear" /\ calls[c].pc = "delete"
    /\ calls' = [calls EXCEPT ![c] =
            [@ EXCEPT !.promise = Reject(@), !.pc = "done", !.fault = TRUE]]
    /\ clearFailed' = calls[c].wasOpen
    /\ openRequest' = IF openRequest = "queued" THEN "pending" ELSE openRequest
    /\ UNCHANGED <<envVars, db, flagVars, initializationPromise, engineVars, txQueue,
                   issued, stored, everPut, quotaAbortSeen, wiped, opens,
                   invalidatedBy, keptOn, absentSeen, race, leaveDone>>

\* A continuation that resolves only when load() was fulfilled.
ClearThen(p, loaded) == IF loaded THEN Resolve(p, Undefined) ELSE Reject(p)

\* A continuation that runs only when load() was fulfilled.
ClearThenOnly(p, loaded) == IF loaded THEN Resolve(p, Undefined) ELSE p

\* clear: the .finally(() => resolve()) continuation of load(), which runs
\* whether load() was fulfilled or rejected.
ClearFinally(p, loaded) == Resolve(p, Undefined)

\* clear: load().finally(() => resolve()).
clear_loaded(c) ==
    /\ Quiet
    /\ calls[c].kind = "clear" /\ calls[c].pc = "load"
    /\ Settled(c)
    /\ calls' = [calls EXCEPT ![c] =
            [@ EXCEPT !.promise = ClearFinally(@, LoadOk(c)), !.pc = "done"]]
    /\ wiped' = [s \in DatabaseStore |-> [k \in Keys |->
            IF wiped[s][k] = "deleted" THEN "cleared" ELSE wiped[s][k]]]
    /\ UNCHANGED <<envVars, db, flagVars, initializationPromise, openRequest,
                   engineVars, txQueue, issued, stored, everPut, quotaAbortSeen, opens, race,
                   absentSeen, keptOn, invalidatedBy, clearFailed, leaveDone>>

\* --------------------------------------------------------------- estimate

\* A number, as typeof sees it.
Number(n) == [kind |-> "number", val |-> n]

\* What navigator.storage.estimate() may be fulfilled with: quota and usage
\* are each a number or missing.
Estimations ==
    {[quota |-> q, usage |-> u] : q \in {Undefined, Number(4)}, u \in {Undefined, Number(1)}}

\* navigator.storage.estimate() was rejected.
EstimateFailed == [kind |-> "rejected"]

\* How the call to navigator.storage.estimate() ends.
EstimateOutcomes == {EstimateFailed} \cup Estimations

\* A check that looks at quota alone.
EstimateResolveLoose(estimation) ==
    IF estimation.quota.kind = "number"
    THEN [kind |-> "object", quota |-> estimation.quota, usage |-> estimation.usage]
    ELSE Null

\* estimate, the .then callback: the value it resolves with.
EstimateResolve(estimation) ==
    IF estimation.quota.kind = "number" /\ estimation.usage.kind = "number"
    THEN [kind |-> "object", quota |-> estimation.quota, usage |-> estimation.usage]
    ELSE Null

\* estimate(): the executor, with whether navigator.storage is there.
estimate(c, storage) ==
    /\ Free(c)
    /\ calls' = [calls EXCEPT ![c] =
            IF storage
            THEN [Idle EXCEPT !.kind = "estimate", !.pc = "estimate"]
            ELSE [Idle EXCEPT !.kind = "estimate", !.pc = "done",
                              !.promise = Resolve(Pending, Null)]]
    /\ issued' = issued + 1
    /\ UNCHANGED <<envVars, db, flagVars, initializationPromise, openRequest,
                   engineVars, txQueue, historyVars>>

\* estimate: navigator.storage.estimate() settled.
estimate_settled(c, outcome) ==
    /\ Quiet
    /\ calls[c].kind = "estimate" /\ calls[c].pc = "estimate"
    /\ calls' = [calls EXCEPT ![c] =
            [@ EXCEPT !.pc = "done", !.payload = outcome,
                      !.promise = IF outcome = EstimateFailed THEN Resolve(@, Null)
                                  ELSE Resolve(@, EstimateResolve(outcome))]]
    /\ UNCHANGED <<envVars, db, flagVars, initializationPromise, openRequest,
                   engineVars, txQueue, issued, historyVars>>

\* ---------------------------------------------------------- specification

Init ==
    /\ indexedDB \in BOOLEAN
    /\ db = "null"
    /\ dbUpgradedAnotherTab = FALSE
    /\ isQuotaExceed = FALSE
    /\ initializationPromise = "null"
    /\ openRequest = "none"
    /\ diskVersion \in {0, version}
    /\ objectStoreNames = IF diskVersion = 0 THEN {} ELSE DOMAIN storeConfiguration
    /\ scope \in Scopes
    /\ records \in IF diskVersion = 0 THEN {NoRecords} ELSE {NoRecords, Preexisting(scope)}
    /\ txQueue = <<>>
    /\ calls = [c \in Slots |-> Idle]
    /\ lanes = {"A"}
    /\ issued = 0
    /\ stored = [s \in DatabaseStore |-> [k \in Keys |-> Unknown]]
    /\ everPut = [s \in DatabaseStore |-> [k \in Keys |-> records[s][k] # Undefined]]
    /\ quotaAbortSeen = FALSE
    /\ wiped = [s \in DatabaseStore |-> [k \in Keys |-> "no"]]
    /\ opens = 0
    /\ absentSeen = FALSE
    /\ keptOn = NoRecords
    /\ invalidatedBy = "none"
    /\ clearFailed = FALSE
    /\ leaveDone = {}
    /\ race = [size |-> 0, n |-> 0, last |-> Undefined]

\* The record addressed when calls overlap.
OverlapScopes == {{<<"projects_preview", "1">>}}

\* Two callers whose calls overlap, on a fresh or re-visited page.
InitConcurrent ==
    /\ indexedDB \in BOOLEAN
    /\ db = "null"
    /\ dbUpgradedAnotherTab = FALSE
    /\ isQuotaExceed = FALSE
    /\ initializationPromise = "null"
    /\ openRequest = "none"
    /\ diskVersion \in {0, version}
    /\ objectStoreNames = IF diskVersion = 0 THEN {} ELSE DOMAIN storeConfiguration
    /\ scope \in OverlapScopes
    /\ records \in IF diskVersion = 0 THEN {NoRecords} ELSE {NoRecords, Preexisting(scope)}
    /\ txQueue = <<>>
    /\ calls = [c \in Slots |-> Idle]
    /\ lanes = Slots
    /\ issued = 0
    /\ stored = [s \in DatabaseStore |-> [k \in Keys |-> Unknown]]
    /\ everPut = [s \in DatabaseStore |-> [k \in Keys |-> records[s][k] # Undefined]]
    /\ quotaAbortSeen = FALSE
    /\ wiped = [s \in DatabaseStore |-> [k \in Keys |-> "no"]]
    /\ opens = 0
    /\ absentSeen = FALSE
    /\ keptOn = NoRecords
    /\ invalidatedBy = "none"
    /\ clearFailed = FALSE
    /\ leaveDone = {}
    /\ race = [size |-> 0, n |-> 0, last |-> Undefined]

\* The caller's continuation takes the settled promise; the slot is free again.
\* FrameData.data.leave, line 541: the result is kept, not looked up.
LeaveStores(result) ==
    IF result.kind = "object" /\ "imageData" \in DOMAIN result
    THEN result.imageData.kind = "ImageBitmap" ELSE FALSE

\* Slot c holds the finished setItem of a FrameData.data.leave made with the
\* cache enabled and healthy: engine present, no quota failure, no
\* invalidation, the database open.
LeaveStored(c) ==
    /\ calls[c].kind = "set" /\ calls[c].storeName = "compressed_job_images"
    /\ LeaveStores(calls[c].object)
    /\ ~calls[c].disabled /\ ~calls[c].quota /\ ~calls[c].absent /\ ~calls[c].invalidated
    /\ LoadOk(c)

return(c) ==
    /\ calls[c].pc = "done"
    /\ calls' = [calls EXCEPT ![c] = Idle]
    /\ leaveDone' = IF LeaveStored(c) THEN leaveDone \cup {calls[c].id} ELSE leaveDone
    /\ UNCHANGED <<envVars, db, flagVars, initializationPromise, openRequest,
                   engineVars, txQueue, issued, stored, everPut, quotaAbortSeen, wiped,
                   opens, clearFailed, invalidatedBy, keptOn, absentSeen, race>>

Next ==
    \/ \E c \in lanes, e \in BOOLEAN, r \in scope :
            \E o \in ObjectsFor(r[1]) : setItem(c, e, r[1], r[2], o)
    \/ \E c \in Slots : setItem_loaded(c)
    \/ \E c \in Slots, ok \in BOOLEAN : setItem_serialized(c, ok)
    \/ \E c \in Slots : put_onsuccess(c)
    \/ \E c \in Slots, err \in Errors : transaction_onerror(c, err)
    \/ \E c \in Slots : transaction_complete(c)
    \/ \E c \in Slots, err \in Errors : transaction_onabort(c, err)
    \/ \E c \in lanes, e \in BOOLEAN, r \in scope : getItem(c, e, r[1], r[2])
    \/ \E c \in Slots : getItem_loaded(c)
    \/ \E c \in Slots : get_onsuccess(c)
    \/ \E c \in Slots : get_onerror(c)
    \/ \E c \in Slots : getItem_deserialized(c)
    \/ \E c \in lanes : clear(c)
    \/ \E c \in Slots : deleteDatabase_onsuccess(c)
    \/ \E c \in Slots : deleteDatabase_onerror(c)
    \/ \E c \in Slots : clear_loaded(c)
    \/ \E c \in lanes, storage \in BOOLEAN : estimate(c, storage)
    \/ \E c \in Slots, outcome \in EstimateOutcomes : estimate_settled(c, outcome)
    \/ onupgradeneeded
    \/ open_onsuccess
    \/ open_onerror
    \/ \E cause \in VersionChangeCauses : onversionchange(cause)
    \/ indexedDB_appears
    \/ \E c \in Slots : return(c)

Spec == Init /\ [][Next]_vars

ConcurrentSpec == InitConcurrent /\ [][Next]_vars

\* The steps the event loop and the engine owe to the call in slot c: its
\* promise continuations and the events of its requests and transactions.
Continue(c) ==
    \/ setItem_loaded(c)
    \/ \E ok \in BOOLEAN : setItem_serialized(c, ok)
    \/ put_onsuccess(c)
    \/ \E err \in Errors : transaction_onerror(c, err)
    \/ transaction_complete(c)
    \/ \E err \in Errors : transaction_onabort(c, err)
    \/ getItem_loaded(c)
    \/ get_onsuccess(c)
    \/ get_onerror(c)
    \/ getItem_deserialized(c)
    \/ deleteDatabase_onsuccess(c)
    \/ deleteDatabase_onerror(c)
    \/ clear_loaded(c)
    \/ \E outcome \in EstimateOutcomes : estimate_settled(c, outcome)
    \/ return(c)

\* The events the engine owes to the open request.
OpenEvent == onupgradeneeded \/ open_onsuccess \/ open_onerror

\* Overlapping callers of one preview record.
InitLive ==
    /\ InitConcurrent
    /\ scope = {<<"projects_preview", "1">>}

\* Overlapping callers, with an event loop that runs every continuation and
\* an engine that delivers an event for every request and transaction.
LiveSpec ==
    /\ InitLive /\ [][Next]_vars
    /\ \A c \in Slots : SF_vars(Continue(c))
    /\ SF_vars(OpenEvent)

\* ------------------------------------------------------------- properties

Fulfilled(v) == [state |-> "fulfilled", value |-> v]

\* The negative result of a call: false for setItem, null for getItem.
Negative(c) == IF calls[c].kind = "set" THEN False ELSE Null

\* A finished getItem that was issued with the cache enabled, the connection
\* open and the quota flag unset, for a record whose last setItem resolved
\* true (n of them in a row) with no setItem or clear() issued since, and whose
\* read met no engine fault.
ReadsAcknowledged(c, n) ==
    /\ calls[c].kind = "get" /\ calls[c].pc = "done"
    /\ calls[c].expect.n >= n
    /\ stored[calls[c].storeName][calls[c].id] = calls[c].expect
    /\ ~calls[c].fault
    /\ db = "open"

\* C1: round trip. A getItem that follows a setItem(p, k, v) which resolved
\* true (cache enabled, connection open, quota flag unset, no write to (p, k)
\* and no clear() in between) resolves to a value equal to v.
C1_RoundTrip ==
    \A c \in Slots :
        ReadsAcknowledged(c, 1) => calls[c].promise = Fulfilled(calls[c].expect.value)

\* C2: miss on absent key. A getItem for a record of any store that was never
\* written resolves to null.
C2_MissOnAbsentKey ==
    \A c \in Slots :
        (/\ calls[c].kind = "get" /\ calls[c].pc = "done"
         /\ ~everPut[calls[c].storeName][calls[c].id])
            => calls[c].promise = Fulfilled(Null)

\* C3: getItem never rejects. In every state and for every store its promise
\* is pending or fulfilled, and fulfilled once the call has finished.
C3_GetItemNeverRejects ==
    \A c \in Slots :
        calls[c].kind = "get" =>
            /\ calls[c].promise.state # "rejected"
            /\ calls[c].pc = "done" => calls[c].promise.state = "fulfilled"

\* C4: setItem never rejects. In every state and for every store, id and
\* object its promise is pending or fulfilled with true or false, and
\* fulfilled once the call has finished.
C4_SetItemNeverRejects ==
    \A c \in Slots :
        calls[c].kind = "set" =>
            /\ calls[c].promise.state # "rejected"
            /\ calls[c].promise.state = "fulfilled" => calls[c].promise.value \in {True, False}
            /\ calls[c].pc = "done" => calls[c].promise.state = "fulfilled"

\* A setItem on the store without a configuration entry, with the cache enabled
\* and the connection open, has finished with false.
C4_Witness ==
    \E c \in Slots :
        /\ calls[c].kind = "set" /\ calls[c].pc = "done"
        /\ calls[c].storeName \notin DOMAIN storeConfiguration
        /\ ~calls[c].disabled /\ db = "open"
        /\ calls[c].promise = Fulfilled(False)

\* The object of slot c's setItem is not of the constructor its store declares.
WrongType(c) ==
    /\ calls[c].kind = "set"
    /\ calls[c].storeName \in DOMAIN storeConfiguration
    /\ calls[c].object.kind # storeConfiguration[calls[c].storeName].type

\* C5: validator enforcement. A setItem whose object is not of the store's
\* declared type never serializes, opens a transaction or issues a put, and
\* resolves false.
C5_ValidatorEnforcement ==
    \A c \in Slots :
        WrongType(c) =>
            /\ calls[c].pc \in {"load", "done"}
            /\ calls[c].payload = Undefined
            /\ calls[c].promise.state = "fulfilled" => calls[c].promise.value = False
            /\ calls[c].pc = "done" => calls[c].promise = Fulfilled(False)

\* A wrongly typed setItem, issued with the cache enabled on an open
\* connection, has finished and the record already stored under its id is
\* still there.
C5_Witness ==
    \E c \in Slots :
        /\ WrongType(c) /\ calls[c].pc = "done"
        /\ ~calls[c].disabled /\ db = "open" /\ ~isQuotaExceed
        /\ records[calls[c].storeName][calls[c].id] # Undefined

\* C6: disabled-cache results. A setItem issued while
\* config.enableIndexedDBCache is false resolves false and a getItem resolves
\* null, whatever the engine does for the call.
C6_DisabledResults ==
    \A c \in Slots :
        (calls[c].kind \in {"set", "get"} /\ calls[c].disabled)
            => calls[c].promise = Fulfilled(Negative(c))

\* A getItem issued with the cache disabled has read its record from the
\* database and its promise is null.
C6_Witness ==
    \E c \in Slots :
        /\ calls[c].kind = "get" /\ calls[c].disabled
        /\ calls[c].pc = "deserialize"
        /\ calls[c].promise = Fulfilled(Null)

\* C7: disabled-cache no engine call. A setItem or getItem issued while the
\* flag is off issues no open, no transaction, no put and no get.
C7_DisabledNoEngineCall ==
    \A c \in Slots :
        (calls[c].kind \in {"set", "get"} /\ calls[c].disabled) => ~calls[c].engine

\* C8: disabled-cache writes are rejected. No step of a setItem issued while
\* the flag is off changes the stored records.
C8_DisabledSetWritesNothing ==
    [][\A c \in Slots :
          (calls[c].kind = "set" /\ calls[c].disabled /\ calls'[c] # calls[c])
              => records' = records]_vars

\* C9: upsert overwrite. After setItem(p, k, v1) resolved true and then
\* setItem(p, k, v2) resolved true, getItem(p, k) resolves to v2.
C9_UpsertOverwrite ==
    \A c \in Slots :
        ReadsAcknowledged(c, 2) => calls[c].promise = Fulfilled(calls[c].expect.value)

\* C10: quota stickiness of results. A setItem or getItem issued after a write
\* transaction aborted with QuotaExceededError, with no clear() in between,
\* resolves false, respectively null.
C10_QuotaStickiness ==
    \A c \in Slots :
        (calls[c].kind \in {"set", "get"} /\ calls[c].afterQuotaAbort)
            => calls[c].promise = Fulfilled(Negative(c))

\* A getItem issued with the cache enabled after a quota abort has read an
\* existing record from the database and its promise is null.
C10_Witness ==
    \E c \in Slots :
        /\ calls[c].kind = "get" /\ calls[c].afterQuotaAbort /\ ~calls[c].disabled
        /\ calls[c].pc = "deserialize"
        /\ calls[c].promise = Fulfilled(Null)

\* C11: quota short-circuit touches no engine. A setItem or getItem issued
\* while #isQuotaExceed is set issues no open, no transaction, no put and no
\* get (and so creates or changes no record).
C11_QuotaNoEngine ==
    \A c \in Slots :
        (calls[c].kind \in {"set", "get"} /\ calls[c].quota) => ~calls[c].engine

\* C12: clear() lifts the quota block. When a clear() invoked with
\* #isQuotaExceed set has resolved, the flag is reset.
C12_ClearLiftsQuota ==
    \A c \in Slots :
        (/\ calls[c].kind = "clear" /\ calls[c].quota
         /\ calls[c].pc = "done" /\ calls[c].promise.state = "fulfilled")
            => ~isQuotaExceed

\* C13: clear() wipes every partition. A getItem for a record that a resolved
\* clear() deleted, with no setItem to that record issued since, resolves null.
C13_ClearWipes ==
    \A c \in Slots :
        (/\ calls[c].kind = "get" /\ calls[c].pc = "done" /\ calls[c].wiped
         /\ wiped[calls[c].storeName][calls[c].id] = "cleared")
            => calls[c].promise = Fulfilled(Null)

\* A getItem with the cache enabled for a record deleted by a resolved clear()
\* has read the re-created database through a transaction and resolved null.
C13_Witness ==
    \E c \in Slots :
        /\ calls[c].kind = "get" /\ calls[c].pc = "done" /\ calls[c].wiped
        /\ ~calls[c].disabled /\ ~calls[c].quota /\ calls[c].engine /\ ~calls[c].fault
        /\ db = "open"
        /\ calls[c].promise = Fulfilled(Null)

\* C14: wipe-then-reuse. When a clear() invoked on an open connection has
\* resolved and no version change invalidated the instance, the connection is
\* open again (on the re-created database), so that setItem and getItem work.
C14_WipeThenReuse ==
    \A c \in Slots :
        (/\ calls[c].kind = "clear" /\ calls[c].wasOpen
         /\ calls[c].pc = "done" /\ calls[c].promise.state = "fulfilled"
         /\ ~dbUpgradedAnotherTab)
            => db = "open"

\* C15: clear() propagates deletion failure. A clear() whose deleteDatabase
\* request failed is rejected; one whose deletion succeeded is resolved,
\* whether the load() that follows is fulfilled or rejected.
C15_ClearPropagates ==
    \A c \in Slots :
        (calls[c].kind = "clear" /\ calls[c].pc = "done") =>
            /\ calls[c].fault => calls[c].promise.state = "rejected"
            /\ calls[c].deleted => calls[c].promise = Fulfilled(Undefined)

\* A clear() whose deletion succeeded and whose load() was rejected has resolved.
C15_Witness ==
    \E c \in Slots :
        /\ calls[c].kind = "clear" /\ calls[c].pc = "done"
        /\ calls[c].deleted /\ ~LoadOk(c)
        /\ calls[c].promise = Fulfilled(Undefined)

\* C17: retry after failed initialization. A setItem or getItem issued after
\* the open request failed (no connection, engine available, not invalidated)
\* makes a new indexedDB.open call.
C17_RetryAfterFailedInit ==
    \A c \in Slots :
        (calls[c].kind \in {"set", "get"} /\ calls[c].afterOpenError) => opens >= 2

\* C18: invalidation is terminal. Once #dbUpgradedAnotherTab is set there is
\* no connection and no open request, and every setItem or getItem issued
\* from then on opens nothing, starts no transaction and resolves false,
\* respectively null.
C18_InvalidationTerminal ==
    /\ dbUpgradedAnotherTab => (db = "null" /\ openRequest = "none")
    /\ \A c \in Slots :
          (calls[c].kind \in {"set", "get"} /\ calls[c].invalidated) =>
              /\ ~calls[c].engine
              /\ calls[c].pc = "done" => calls[c].promise = Fulfilled(Negative(c))

\* C19: setItem resolves true only on successful commit. A finished setItem
\* whose promise is true has committed its transaction and its record is stored.
C19_TrueOnlyOnCommit ==
    \A c \in Slots :
        (/\ calls[c].kind = "set" /\ calls[c].pc = "done"
         /\ calls[c].promise = Fulfilled(True))
            => /\ calls[c].error = ""
               /\ records[calls[c].storeName][calls[c].id] = calls[c].payload

\* Slot c's setItem finishes in this step otherwise than by a commit or by an
\* abort with QuotaExceededError.
OtherFailure(c) ==
    /\ calls[c].kind = "set" /\ calls[c].pc # "done" /\ calls'[c].pc = "done"
    /\ ~(calls[c].pc = "commit" /\ calls'[c].error = "")
    /\ calls'[c].error # "QuotaExceededError"

\* C20: the quota flag is set exactly by quota aborts. #isQuotaExceed changes
\* only to true and only in a step in which a write transaction aborts with
\* QuotaExceededError; a setItem that fails in any other way resolves false
\* and leaves #isQuotaExceed and #dbUpgradedAnotherTab unchanged.
C20_QuotaFlagExact ==
    [][/\ isQuotaExceed' # isQuotaExceed =>
            /\ isQuotaExceed'
            /\ \E c \in Slots :
                    /\ calls[c].kind = "set" /\ calls[c].pc \in {"commit", "abort"}
                    /\ calls'[c].pc = "done" /\ calls'[c].error = "QuotaExceededError"
       /\ \A c \in Slots :
            OtherFailure(c) =>
                /\ calls'[c].promise = Fulfilled(False)
                /\ UNCHANGED flagVars]_vars

\* C16: concurrent initialization. However setItem / getItem calls overlap
\* before a connection exists, at most one indexedDB.open is ever made, and
\* every call that awaits the initialization awaits the one, shared promise
\* of that open.
C16_SingleOpen ==
    /\ opens <= 1
    /\ \A c \in Slots :
          (calls[c].kind \in {"set", "get"} /\ calls[c].pc = "load"
           /\ calls[c].loadp = "init")
              => (opens = 1 /\ initializationPromise # "null")

\* Two overlapping calls, a setItem and a getItem, both await the one open
\* request that is in flight.
C16_Witness ==
    /\ calls["A"].kind = "set" /\ calls["B"].kind = "get"
    /\ \A c \in Slots : calls[c].pc = "load" /\ calls[c].loadp = "init"
    /\ openRequest = "pending" /\ initializationPromise = "pending"
    /\ opens = 1

\* The storage-quota API, called by slot c's estimate(), returned numeric
\* quota and usage.
NumericEstimation(c) ==
    /\ calls[c].payload \in Estimations
    /\ calls[c].payload.quota.kind = "number"
    /\ calls[c].payload.usage.kind = "number"

\* C21: estimate() never rejects and is purely informational. No step of an
\* estimate() rejects its promise or changes the connection, the flags, the
\* initialization or the records; it finishes with { quota, usage } exactly
\* when the API is present and returned numeric quota and usage, and with
\* null otherwise (API absent, call failed, a field not numeric).
C21_EstimateInformational ==
    [][\A c \in Slots :
          (calls'[c].kind = "estimate" /\ calls'[c] # calls[c]) =>
              /\ UNCHANGED <<db, flagVars, initializationPromise, openRequest,
                             engineVars, txQueue>>
              /\ calls'[c].promise.state # "rejected"
              /\ calls'[c].pc = "done" =>
                    /\ calls'[c].promise.state = "fulfilled"
                    /\ NumericEstimation(c)' =>
                          calls'[c].promise.value =
                              [kind |-> "object", quota |-> calls'[c].payload.quota,
                               usage |-> calls'[c].payload.usage]
                    /\ ~NumericEstimation(c)' => calls'[c].promise.value = Null]_vars

\* An estimate() whose API returned a numeric quota and no usage has finished
\* with null.
C21_Witness ==
    \E c \in Slots :
        /\ calls[c].kind = "estimate" /\ calls[c].pc = "done"
        /\ calls[c].payload \in Estimations
        /\ calls[c].payload.quota.kind = "number"
        /\ calls[c].payload.usage = Undefined
        /\ calls[c].promise = Fulfilled(Null)

\* C22: all partitions exist once Open. Whenever the connection is open, the
\* database has an object store for every tag of DatabaseStore, and every tag
\* has a #storeConfiguration entry.
C22_AllPartitionsExist ==
    db = "open" =>
        /\ objectStoreNames = DatabaseStore
        /\ DOMAIN storeConfiguration = DatabaseStore

C25_LastCommitWins ==
    \A c \in Slots :
        (/\ calls[c].kind = "set" /\ calls[c].overlap /\ calls[c].pc = "done"
         /\ SetPeers(c, calls[c].storeName, calls[c].id) = {}
         /\ race.n = race.size)
            => /\ race.last # Undefined
               /\ records[calls[c].storeName][calls[c].id] = race.last

\* C26: records live until overwritten or wiped. The record under (p, k)
\* changes only in the commit of a setItem to (p, k) that resolved true, or in
\* the deletion of a clear(); no other setItem, no getItem, no estimate() and
\* no setItem that resolved false changes it.
C26_RecordsFrame ==
    [][\A s \in DatabaseStore, k \in Keys :
          records'[s][k] # records[s][k] =>
              \/ \E c \in Slots :
                    /\ calls[c].kind = "clear"
                    /\ calls[c].pc = "delete" /\ calls'[c].pc = "load"
              \/ \E c \in Slots :
                    /\ calls[c].kind = "set"
                    /\ calls[c].storeName = s /\ calls[c].id = k
                    /\ calls[c].pc = "commit" /\ calls'[c].pc = "done"
                    /\ calls[c].promise = Fulfilled(True)]_vars

\* C27: environment unavailable carries no sticky penalty. While indexedDB is
\* absent nothing of the instance has changed (no connection, no
\* initialization, no open request, no flag); a setItem or getItem issued
\* without it touches no engine and resolves false, respectively null; and a
\* setItem or getItem issued once it is present, after such calls, has the
\* database opened.
C27_NoStickyPenalty ==
    /\ ~indexedDB =>
          /\ db = "null" /\ initializationPromise = "null" /\ openRequest = "none"
          /\ ~isQuotaExceed /\ ~dbUpgradedAnotherTab /\ opens = 0
    /\ \A c \in Slots :
          calls[c].kind \in {"set", "get"} =>
              /\ calls[c].absent =>
                    /\ ~calls[c].engine
                    /\ calls[c].pc = "done" => calls[c].promise = Fulfilled(Negative(c))
              /\ (calls[c].afterAbsent /\ ~calls[c].absent /\ calls[c].pc = "load")
                    => opens = 1

\* C28: the feature flag is sampled per operation and disabling destroys no
\* data. A getItem that reads the flag on is not gated, whatever earlier calls
\* read, and once it has read the database it resolves to the record the last
\* setItem that read the flag on committed: the calls made while the flag was
\* off have not removed or replaced it.
C28_FlagSampledPerCall ==
    \A c \in Slots :
        (/\ calls[c].kind = "get" /\ calls[c].pc = "done"
         /\ ~calls[c].disabled /\ ~calls[c].quota /\ calls[c].read
         /\ calls[c].kept # Undefined)
            => calls[c].promise = Fulfilled(deserialize(calls[c].storeName, calls[c].kept))

\* C29: only another tab can invalidate. #dbUpgradedAnotherTab is set only by
\* a version change fired for an upgrade or a deletion made through another
\* tab: in no interleaving of this tab's clear() with load() is it set by a
\* version change fired for the deletion clear() itself requested.
C29_OnlyAnotherTab ==
    /\ dbUpgradedAnotherTab <=> invalidatedBy # "none"
    /\ invalidatedBy # "clear"

\* C30: single open per instance lifetime. indexedDB.open is called at most
\* once by the instance: exactly when #initializationPromise is created, which
\* is never reset, so that a setItem or getItem issued after the open request
\* failed or after a version change invalidated the tab opens nothing.
C30_SingleOpenLifetime ==
    /\ opens <= 1
    /\ opens = 1 <=> initializationPromise # "null"
    /\ \A c \in Slots :
          (/\ calls[c].kind \in {"set", "get"}
           /\ calls[c].afterOpenError \/ calls[c].invalidated)
              => ~calls[c].engine

\* A setItem or getItem issued after the one open request failed has finished
\* and no second open was made.
C30_Witness ==
    \E c \in Slots :
        /\ calls[c].kind \in {"set", "get"} /\ calls[c].pc = "done"
        /\ calls[c].afterOpenError
        /\ initializationPromise = "rejected"
        /\ opens = 1

\* C31: in-flight write racing a close. A setItem that was awaiting
\* serialize(object) when clear() closed the connection, or when the
\* version-change handler dropped it, starts no transaction, is never rejected
\* and ends resolved false; where the database was deleted, its record is not
\* in it.
C31_WriteRacingClose ==
    \A c \in Slots :
        (calls[c].kind = "set" /\ calls[c].raced # "no") =>
            /\ calls[c].pc \in {"serialize", "done"}
            /\ calls[c].promise.state # "rejected"
            /\ calls[c].pc = "done" =>
                  /\ calls[c].promise = Fulfilled(False)
                  /\ diskVersion = 0 =>
                        records[calls[c].storeName][calls[c].id] = Undefined

\* A setItem that was awaiting serialization when clear() closed the connection
\* has resolved false, and the deletion clear() requested has been made.
C31_Witness ==
    \E c \in Slots, d \in Slots :
        /\ calls[c].kind = "set" /\ calls[c].raced = "clear" /\ calls[c].pc = "done"
        /\ ~calls[c].disabled /\ ~calls[c].quota
        /\ calls[c].promise = Fulfilled(False)
        /\ calls[d].kind = "clear" /\ calls[d].deleted

\* C32: state unchanged when clear() fails. A getItem issued after a clear()
\* that closed the connection and was rejected, because deleteDatabase failed,
\* still returns the record that is on disk under its key: the failed clear()
\* left the cache usable.
C32_FailedClearKeepsCache ==
    \A c \in Slots :
        (/\ calls[c].kind = "get" /\ calls[c].pc = "done"
         /\ calls[c].afterFailedClear
         /\ ~calls[c].disabled /\ ~calls[c].quota /\ ~calls[c].fault
         /\ ~dbUpgradedAnotherTab
         /\ records[calls[c].storeName][calls[c].id] # Undefined)
            => calls[c].promise =
                  Fulfilled(deserialize(calls[c].storeName,
                                        records[calls[c].storeName][calls[c].id]))

\* What FrameData.data.enter returns to the plugin machinery on a hit.
PreventMethodCall == [kind |-> "object", preventMethodCall |-> TRUE]

\* FrameData.data.enter: the promise of the async function, from the promise
\* of its getItem; an await on a rejected promise throws.
FrameDataEnter(p) ==
    IF p.state # "fulfilled" THEN p
    ELSE IF p.value # Null THEN Fulfilled(PreventMethodCall)
    ELSE Fulfilled(Null)

\* FrameData.data.leave with a result it stores: the promise of the async
\* function, from the promise of its setItem.
FrameDataLeave(result, p) == IF p.state # "fulfilled" THEN p ELSE Fulfilled(result)

\* C33: frame cache plugin hit after store. FrameData.data.leave called with a
\* frame whose imageData is an ImageBitmap returns that frame; and once it has,
\* cache enabled and healthy, a FrameData.data.enter for the same frame finds
\* it under its key in compressed_job_images and returns
\* { preventMethodCall: true }.
C33_FrameHitAfterStore ==
    \A c \in Slots :
        /\ (/\ calls[c].kind = "set" /\ calls[c].storeName = "compressed_job_images"
             /\ LeaveStores(calls[c].object) /\ calls[c].pc = "done")
                => FrameDataLeave(calls[c].object, calls[c].promise)
                       = Fulfilled(calls[c].object)
        /\ (/\ calls[c].kind = "get" /\ calls[c].afterLeave /\ calls[c].pc = "done"
             /\ ~calls[c].disabled /\ ~calls[c].quota /\ ~calls[c].absent
             /\ ~calls[c].invalidated)
                => FrameDataEnter(calls[c].promise) = Fulfilled(PreventMethodCall)

====
